---- MODULE Spec2Model ----
(***************************************************************************)
(* A model of app.py, the PIPE demand-letter service: the canonicalization *)
(* helpers (parse_money, normalize_rr, norm_date, parse_date_any), the CSV *)
(* statement aggregation of /statement-extract and the text extraction and *)
(* field pulls of /agreement-extract.                                      *)
(*                                                                         *)
(* A Python str is a sequence of one-character strings.  A Python value is *)
(* a record tagged by its type: NoneV, Str(s), a number Num(neg, mant,     *)
(* exp) standing for (-1)^neg * mant / 10^exp, a date, a list.  A float is *)
(* kept as the exact decimal it was parsed from; the one place where the   *)
(* binary representation decides an outcome (rounding a value that lies    *)
(* exactly half-way between two cents) is a choice of the calling action.  *)
(***************************************************************************)
EXTENDS Integers, Sequences, FiniteSets, TLC

VARIABLES
    money_val,      \* parse_money: the argument val
    money_ret,      \* parse_money: what the call did (returned pair, or raised)
    rr_arg,         \* normalize_rr: the argument rr
    rr_ret,         \* normalize_rr: what the call returned
    hdr_names,      \* column mapping alone: reader.fieldnames
    hdr_cols,       \* column mapping alone: the four columns found
    st_pc,          \* statement_extract: "idle", "rows" (at the head of the row
                    \* loop), "body" (a row read, its pass to run), "passed"
                    \* (the pass done), "done"
    fieldnames,     \* statement_extract: reader.fieldnames
    effective_date_str, \* the form's effective_date, stripped
    rr_percent_in,  \* the form's rr_percent, stripped
    eff_date,       \* the date filter, or None
    rr_norm,        \* the normalized rate, "" when none was given
    cols,           \* col_rev_date, col_revenue, col_collected, col_status
    total_revenue,
    total_collected_success,
    row,            \* the row of the current pass of the loop; None at the head
                    \* of the loop, where the code no longer reads the last one
    line_num,       \* reader.line_num
    rows_iterated,  \* passes of the loop body so far
    resp,           \* the response, once sent
    ag_pc,          \* agreement_extract: "idle", "text" (the text read), "done"
    ag_tried,       \* what became of each text-extraction strategy
    ag_text,        \* the text read from the upload, or None
    ag_resp         \* the response, once sent

moneyVars == <<money_val, money_ret>>
percentVars == <<rr_arg, rr_ret>>
columnVars == <<hdr_names, hdr_cols>>
statementVars ==
    <<st_pc, fieldnames, effective_date_str, rr_percent_in, eff_date, rr_norm, cols,
      total_revenue, total_collected_success, row, line_num,
      rows_iterated, resp>>

agreementVars == <<ag_pc, ag_tried, ag_text, ag_resp>>

vars == <<moneyVars, percentVars, columnVars, statementVars, agreementVars>>

----
\* Python values

NoneV == [t |-> "none"]
Str(s) == [t |-> "str", s |-> s]
Num(neg, mant, exp) == [t |-> "num", neg |-> neg, mant |-> mant, exp |-> exp]
Pending == [t |-> "pending"]

\* str(val) of a value that is a str
PyStr(v) == v.s

----
\* Characters

DigitChars == <<"0", "1", "2", "3", "4", "5", "6", "7", "8", "9">>
UpperChars == <<"A", "B", "C", "D", "E", "F", "G", "H", "I", "J", "K", "L", "M",
                "N", "O", "P", "Q", "R", "S", "T", "U", "V", "W", "X", "Y", "Z">>
LowerChars == <<"a", "b", "c", "d", "e", "f", "g", "h", "i", "j", "k", "l", "m",
                "n", "o", "p", "q", "r", "s", "t", "u", "v", "w", "x", "y", "z">>

Range(seq) == {seq[i] : i \in DOMAIN seq}

IsDigit(c) == c \in Range(DigitChars)
IsUpper(c) == c \in Range(UpperChars)
IsLower(c) == c \in Range(LowerChars)
IsAlpha(c) == IsUpper(c) \/ IsLower(c)
IsSpace(c) == c \in {" ", "\t"}

DigitVal(c) == (CHOOSE i \in DOMAIN DigitChars : DigitChars[i] = c) - 1

\* str.lower() on one character
LowerChar(c) ==
    IF IsUpper(c)
    THEN LowerChars[CHOOSE i \in DOMAIN UpperChars : UpperChars[i] = c]
    ELSE c

\* str.lower()
Lower(s) == [i \in DOMAIN s |-> LowerChar(s[i])]

RECURSIVE LStrip(_)
LStrip(s) == IF s # <<>> /\ IsSpace(Head(s)) THEN LStrip(Tail(s)) ELSE s

RECURSIVE RStripSet(_, _)
\* str.rstrip(chars)
RStripSet(s, chars) ==
    IF s # <<>> /\ s[Len(s)] \in chars
    THEN RStripSet(SubSeq(s, 1, Len(s) - 1), chars)
    ELSE s

\* str.strip()
Strip(s) == RStripSet(LStrip(s), {" ", "\t"})

RECURSIVE Pow10(_)
Pow10(n) == IF n = 0 THEN 1 ELSE 10 * Pow10(n - 1)

RECURSIVE DigitsToInt(_)
\* the integer a run of digits spells
DigitsToInt(s) ==
    IF s = <<>> THEN 0
    ELSE 10 * DigitsToInt(SubSeq(s, 1, Len(s) - 1)) + DigitVal(s[Len(s)])

RECURSIVE IntToDigits(_)
\* the decimal digits of a natural number
IntToDigits(n) ==
    IF n < 10 THEN <<DigitChars[n + 1]>>
    ELSE IntToDigits(n \div 10) \o <<DigitChars[(n % 10) + 1]>>

----
\* float(), and the format specs ",.2f" and ".2f"

\* float(s) on a str of digits, '.' and '-' (what CURRENCY_RE leaves, and what
\* the number pattern of normalize_rr captures): an optional leading '-', then
\* digits with at most one '.', at least one digit.  Anything else raises
\* ValueError.
FloatBody(s) == IF s # <<>> /\ Head(s) = "-" THEN Tail(s) ELSE s

FloatParses(s) ==
    LET b == FloatBody(s)
    IN  /\ \A i \in DOMAIN b : IsDigit(b[i]) \/ b[i] = "."
        /\ Cardinality({i \in DOMAIN b : b[i] = "."}) <= 1
        /\ \E i \in DOMAIN b : IsDigit(b[i])

FloatOf(s) ==
    LET b == FloatBody(s)
        dots == {i \in DOMAIN b : b[i] = "."}
        dot == IF dots = {} THEN Len(b) + 1 ELSE CHOOSE i \in dots : TRUE
        digits == SelectSeq(b, IsDigit)
    IN  Num(s # <<>> /\ Head(s) = "-", DigitsToInt(digits),
            IF dots = {} THEN 0 ELSE Len(b) - dot)

\* float(s): [raised, v]
float(s) ==
    IF FloatParses(s) THEN [raised |-> FALSE, v |-> FloatOf(s)]
    ELSE [raised |-> TRUE, v |-> NoneV]

\* f lies exactly half-way between two hundredths as a decimal
IsTie(f) ==
    /\ f.exp > 2
    /\ 2 * (f.mant % Pow10(f.exp - 2)) = Pow10(f.exp - 2)

\* The choices a caller has for the rounding of f: the double nearest to a
\* decimal tie lies on either side of it.
TieChoices(f) == IF f.t = "num" /\ IsTie(f) THEN BOOLEAN ELSE {FALSE}

\* |f| rounded to hundredths, as a natural number of hundredths
RoundHundredths(f, up) ==
    IF f.exp <= 2 THEN f.mant * Pow10(2 - f.exp)
    ELSE LET unit == Pow10(f.exp - 2)
             q == f.mant \div unit
             r == f.mant % unit
         IN  IF 2 * r > unit \/ (2 * r = unit /\ up) THEN q + 1 ELSE q

TwoDigits(n) == <<DigitChars[(n \div 10) + 1], DigitChars[(n % 10) + 1]>>

RECURSIVE Group3(_)
\* the ',' option of the format spec: a comma before every group of three digits
Group3(d) ==
    IF Len(d) <= 3 THEN d
    ELSE Group3(SubSeq(d, 1, Len(d) - 3)) \o <<",">> \o SubSeq(d, Len(d) - 2, Len(d))

\* f"{f:.2f}"
Fmt2f(f, up) ==
    LET h == RoundHundredths(f, up)
    IN  (IF f.neg THEN <<"-">> ELSE <<>>)
        \o IntToDigits(h \div 100) \o <<".">> \o TwoDigits(h % 100)

\* f"{f:,.2f}"
FmtComma2f(f, up) ==
    LET h == RoundHundredths(f, up)
    IN  (IF f.neg THEN <<"-">> ELSE <<>>)
        \o Group3(IntToDigits(h \div 100)) \o <<".">> \o TwoDigits(h % 100)

----
\* parse_money

\* CURRENCY_RE.sub("", s): drop every character outside [0-9.-]
CurrencySub(s) == SelectSeq(s, LAMBDA c : IsDigit(c) \/ c \in {".", "-"})

\* What a call did: it returned the pair (amount, display), or it raised.
Returned(amount, display) ==
    [raised |-> FALSE, amount |-> amount, display |-> display]
Raise == [raised |-> TRUE, amount |-> NoneV, display |-> <<>>]

\* A faulty variant: the float() call outside the try block.
parse_money_unguarded(val, up) ==
    IF val = NoneV \/ val = Str(<<>>) THEN Returned(NoneV, <<>>)
    ELSE LET r == float(CurrencySub(PyStr(val)))
         IN  IF r.raised THEN Raise
             ELSE Returned(r.v, <<"$">> \o FmtComma2f(r.v, up))

parse_money(val, up) ==
    IF val = NoneV \/ val = Str(<<>>) THEN Returned(NoneV, <<>>)
    ELSE LET r == float(CurrencySub(PyStr(val)))
         IN  IF r.raised THEN Returned(NoneV, PyStr(val))
             ELSE Returned(r.v, <<"$">> \o FmtComma2f(r.v, up))

\* The rounding choices of parse_money(val)
MoneyTieChoices(val) ==
    IF val.t = "str" /\ FloatParses(CurrencySub(val.s))
    THEN TieChoices(FloatOf(CurrencySub(val.s)))
    ELSE {FALSE}

----
\* normalize_rr

\* re.search(r"(\d+(?:\.\d+)?)", s).group(1): the leftmost digit run, with a
\* '.' and the digit run after it when there is one; <<>> when s has no digit.
RECURSIVE DigitRun(_)
DigitRun(s) ==
    IF s # <<>> /\ IsDigit(Head(s)) THEN <<Head(s)>> \o DigitRun(Tail(s)) ELSE <<>>

FirstNumber(s) ==
    LET starts == {i \in DOMAIN s : IsDigit(s[i])}
    IN  IF starts = {} THEN <<>>
        ELSE LET i == CHOOSE k \in starts : \A j \in starts : k <= j
                 int == DigitRun(SubSeq(s, i, Len(s)))
                 rest == SubSeq(s, i + Len(int), Len(s))
                 frac == IF rest # <<>> /\ Head(rest) = "."
                         THEN DigitRun(Tail(rest)) ELSE <<>>
             IN  IF frac = <<>> THEN int ELSE int \o <<".">> \o frac

\* f < 0, f > 100 on a Num
NumNegative(f) == f.neg /\ f.mant > 0
NumAbove100(f) == ~f.neg /\ f.mant > 100 * Pow10(f.exp)

\* f = 0.0 if f < 0 else (100.0 if f > 100 else f)
Clamp(f) ==
    IF NumNegative(f) THEN Num(FALSE, 0, 0)
    ELSE IF NumAbove100(f) THEN Num(FALSE, 100, 0)
    ELSE f

\* `not rr`
Falsy(v) == v = NoneV \/ v = Str(<<>>)

normalize_rr(rr, up) ==
    IF Falsy(rr) THEN <<>>
    ELSE LET m == FirstNumber(PyStr(rr))
         IN  IF m = <<>> THEN PyStr(rr)
             ELSE LET f == Clamp(float(m).v)
                      s == RStripSet(RStripSet(Fmt2f(f, up), {"0"}), {"."})
                  IN  s \o <<"%">>

\* The rounding choices of normalize_rr(rr)
PercentTieChoices(rr) ==
    IF rr.t = "str" /\ FirstNumber(rr.s) # <<>>
    THEN TieChoices(Clamp(float(FirstNumber(rr.s)).v))
    ELSE {FALSE}

----
\* Dates: datetime.strptime, norm_date, parse_date_any

Date(y, m, d) == [t |-> "date", y |-> y, m |-> m, d |-> d]

MonthAbbrs ==
    <<<<"J", "a", "n">>,
      <<"F", "e", "b">>,
      <<"M", "a", "r">>,
      <<"A", "p", "r">>,
      <<"M", "a", "y">>,
      <<"J", "u", "n">>,
      <<"J", "u", "l">>,
      <<"A", "u", "g">>,
      <<"S", "e", "p">>,
      <<"O", "c", "t">>,
      <<"N", "o", "v">>,
      <<"D", "e", "c">>>>

\* A str cut into its runs: letters, digits, white space; any other character
\* is a token of its own.
CharClass(c) ==
    IF IsAlpha(c) THEN "alpha"
    ELSE IF IsDigit(c) THEN "digit"
    ELSE IF IsSpace(c) THEN "space"
    ELSE "punct"

RECURSIVE RunLen(_, _)
RunLen(s, k) ==
    IF s # <<>> /\ CharClass(Head(s)) = k THEN 1 + RunLen(Tail(s), k) ELSE 0

RECURSIVE Tokens(_)
Tokens(s) ==
    IF s = <<>> THEN <<>>
    ELSE LET k == CharClass(Head(s))
             n == IF k = "punct" THEN 1 ELSE RunLen(s, k)
         IN  <<[k |-> k, s |-> SubSeq(s, 1, n)]>> \o Tokens(SubSeq(s, n + 1, Len(s)))

\* The directives of strptime, each against one token.  %b: a month
\* abbreviation in any case; %d: 1..31 in one or two digits; %m: 1..12 in one
\* or two digits; %Y: four digits; white space in the format: a run of white
\* space; any other character: itself.  (A day padded with a blank after '/',
\* which %d also takes, is in none of the inputs of the model.)
IsMonthAbbr(tok) ==
    tok.k = "alpha" /\ \E i \in DOMAIN MonthAbbrs : Lower(MonthAbbrs[i]) = Lower(tok.s)
MonthOfAbbr(tok) ==
    CHOOSE i \in DOMAIN MonthAbbrs : Lower(MonthAbbrs[i]) = Lower(tok.s)

DirectiveMatches(dir, tok) ==
    CASE dir = "b" -> IsMonthAbbr(tok)
      [] dir = "d" -> tok.k = "digit" /\ Len(tok.s) \in {1, 2}
                      /\ DigitsToInt(tok.s) \in 1..31
      [] dir = "m" -> tok.k = "digit" /\ Len(tok.s) \in {1, 2}
                      /\ DigitsToInt(tok.s) \in 1..12
      [] dir = "Y" -> tok.k = "digit" /\ Len(tok.s) = 4 /\ DigitsToInt(tok.s) >= 1
      [] dir = " " -> tok.k = "space"
      [] OTHER -> tok.k = "punct" /\ tok.s = <<dir>>

IsLeap(y) == (y % 4 = 0 /\ y % 100 # 0) \/ y % 400 = 0

DaysInMonth(y, m) ==
    IF m = 2 THEN (IF IsLeap(y) THEN 29 ELSE 28)
    ELSE IF m \in {4, 6, 9, 11} THEN 30
    ELSE 31

\* The value of the token the directive dir of fmt matched
Field(fmt, toks, dir) ==
    LET i == CHOOSE k \in DOMAIN fmt : fmt[k] = dir
    IN  IF dir = "b" THEN MonthOfAbbr(toks[i]) ELSE DigitsToInt(toks[i].s)

\* datetime.strptime(s, fmt): the date, or NoneV where it raises ValueError
strptime(s, fmt) ==
    LET toks == Tokens(s)
    IN  IF /\ Len(toks) = Len(fmt)
           /\ \A i \in DOMAIN fmt : DirectiveMatches(fmt[i], toks[i])
        THEN LET y == Field(fmt, toks, "Y")
                 m == Field(fmt, toks, IF "b" \in Range(fmt) THEN "b" ELSE "m")
                 d == Field(fmt, toks, "d")
             IN  IF d <= DaysInMonth(y, m) THEN Date(y, m, d) ELSE NoneV
        ELSE NoneV

\* fmts = ("%b %d %Y", "%b %d, %Y", "%m %d %Y", "%m/%d/%Y", "%Y-%m-%d")
fmts ==
    << <<"b", " ", "d", " ", "Y">>,
       <<"b", " ", "d", ",", " ", "Y">>,
       <<"m", " ", "d", " ", "Y">>,
       <<"m", "/", "d", "/", "Y">>,
       <<"Y", "-", "m", "-", "d">> >>

\* The date of the first format of fmts that parses s, or NoneV
FirstFormat(s) ==
    LET ok == {i \in DOMAIN fmts : strptime(s, fmts[i]) # NoneV}
    IN  IF ok = {} THEN NoneV
        ELSE strptime(s, fmts[CHOOSE i \in ok : \A j \in ok : i <= j])

PadTo(digits, n) ==
    [i \in 1..(IF Len(digits) >= n THEN 0 ELSE n - Len(digits)) |-> "0"] \o digits

\* dt.strftime("%b %d, %Y")
strftime(dt) ==
    MonthAbbrs[dt.m] \o <<" ">> \o PadTo(IntToDigits(dt.d), 2) \o <<",", " ">>
    \o PadTo(IntToDigits(dt.y), 4)

\* norm_date(s, default): the str it returns
norm_date(s, default) ==
    IF Falsy(s) THEN default
    ELSE LET dt == FirstFormat(Strip(PyStr(s)))
         IN  IF dt # NoneV THEN strftime(dt) ELSE Strip(PyStr(s))

\* s.replace(",", "")
DropCommas(s) == SelectSeq(s, LAMBDA c : c # ",")

\* parse_date_any(s): a date or NoneV
parse_date_any(s) ==
    IF Falsy(s) THEN NoneV
    ELSE LET str == Strip(PyStr(s))
             dt == FirstFormat(str)
         IN  IF dt # NoneV THEN dt
             ELSE strptime(DropCommas(str), fmts[1])

\* dt < eff_date on dates
DateLess(a, b) ==
    \/ a.y < b.y
    \/ a.y = b.y /\ a.m < b.m
    \/ a.y = b.y /\ a.m = b.m /\ a.d < b.d

----
\* Exact decimals for the sums of statement_extract: n / 10^e, without
\* trailing zeros.  (The code adds floats; the model adds the decimals the
\* floats were parsed from.)

RECURSIVE Dec(_, _)
Dec(n, e) == IF e > 0 /\ n % 10 = 0 THEN Dec(n \div 10, e - 1) ELSE [n |-> n, e |-> e]

DecZero == Dec(0, 0)
DecOfNum(f) == Dec(IF f.neg THEN 0 - f.mant ELSE f.mant, f.exp)
MaxOf(a, b) == IF a >= b THEN a ELSE b
DecAdd(a, b) ==
    LET e == MaxOf(a.e, b.e)
    IN  Dec(a.n * Pow10(e - a.e) + b.n * Pow10(e - b.e), e)
DecSub(a, b) == DecAdd(a, Dec(0 - b.n, b.e))
DecMul(a, b) == Dec(a.n * b.n, a.e + b.e)
DecDiv100(a) == Dec(a.n, a.e + 2)
DecPositive(a) == a.n > 0
\* max(0.0, a)
DecMax0(a) == IF a.n > 0 THEN a ELSE DecZero

----
\* Column aliasing: _canonize, COLUMN_ALIASES, _find_col

RECURSIVE CollapseNonAlnum(_)
\* re.sub(r"[^a-z0-9]+", "_", s)
CollapseNonAlnum(s) ==
    IF s = <<>> THEN <<>>
    ELSE IF IsLower(Head(s)) \/ IsDigit(Head(s))
    THEN <<Head(s)>> \o CollapseNonAlnum(Tail(s))
    ELSE LET rest == CollapseNonAlnum(Tail(s))
         IN  IF Len(s) > 1 /\ ~(IsLower(s[2]) \/ IsDigit(s[2]))
             THEN rest
             ELSE <<"_">> \o rest

\* _canonize(name)
canonize(name) == CollapseNonAlnum(Lower(Strip(name)))

Aliases_revenue_date ==
    {<<"r", "e", "v", "e", "n", "u", "e", "_", "d", "a", "t", "e">>,
     <<"d", "a", "t", "e">>,
     <<"p", "a", "y", "m", "e", "n", "t", "_", "d", "a", "t", "e">>}
Aliases_revenue ==
    {<<"r", "e", "v", "e", "n", "u", "e">>,
     <<"g", "r", "o", "s", "s", "_", "r", "e", "v", "e", "n", "u", "e">>,
     <<"a", "m", "o", "u", "n", "t">>}
Aliases_collected ==
    {<<"c", "o", "l", "l", "e", "c", "t", "e", "d">>,
     <<"p", "i", "p", "e", "_", "c", "o", "l", "l", "e", "c", "t", "e", "d">>,
     <<"t", "o", "_", "p", "i", "p", "e">>,
     <<"r", "e", "m", "i", "t", "t", "e", "d">>}
Aliases_status ==
    {<<"s", "t", "a", "t", "u", "s">>,
     <<"r", "e", "s", "u", "l", "t">>}
Aliases_collection_date ==
    {<<"c", "o", "l", "l", "e", "c", "t", "i", "o", "n", "_", "d", "a", "t", "e">>,
     <<"c", "o", "l", "l", "e", "c", "t", "e", "d", "_", "d", "a", "t", "e">>,
     <<"r", "e", "m", "i", "t", "_", "d", "a", "t", "e">>}
Aliases_method ==
    {<<"m", "e", "t", "h", "o", "d">>,
     <<"p", "a", "y", "m", "e", "n", "t", "_", "m", "e", "t", "h", "o", "d">>}

Roles == {"revenue_date", "revenue", "collected", "status", "collection_date", "method"}

COLUMN_ALIASES ==
    [role \in Roles |->
        CASE role = "revenue_date" -> Aliases_revenue_date
          [] role = "revenue" -> Aliases_revenue
          [] role = "collected" -> Aliases_collected
          [] role = "status" -> Aliases_status
          [] role = "collection_date" -> Aliases_collection_date
          [] role = "method" -> Aliases_method]

RECURSIVE Distinct(_)
\* the keys of a dict filled in the order of seq: each element once, at the
\* place of its first occurrence
Distinct(seq) ==
    IF seq = <<>> THEN <<>>
    ELSE LET init == Distinct(SubSeq(seq, 1, Len(seq) - 1))
             last == seq[Len(seq)]
         IN  IF last \in Range(init) THEN init ELSE Append(init, last)

\* mapping = {}; for col in reader.fieldnames: mapping[col] = _canonize(col)
\* The dict as the sequence of its items, in insertion order.
HeaderMapping(names) ==
    LET keys == Distinct(names)
    IN  [i \in DOMAIN keys |-> [k |-> keys[i], v |-> canonize(keys[i])]]

\* A faulty variant: the last matching header wins.
find_col_last(mapping, key) ==
    LET hits == {i \in DOMAIN mapping : mapping[i].v \in COLUMN_ALIASES[key]}
    IN  IF hits = {} THEN NoneV
        ELSE Str(mapping[CHOOSE i \in hits : \A j \in hits : j <= i].k)

\* _find_col(mapping, key): the first key of mapping whose value is an alias
\* of the role, or None
find_col(mapping, key) ==
    LET hits == {i \in DOMAIN mapping : mapping[i].v \in COLUMN_ALIASES[key]}
    IN  IF hits = {} THEN NoneV
        ELSE Str(mapping[CHOOSE i \in hits : \A j \in hits : i <= j].k)

----
\* statement_extract: the CSV reader and the row loop

List(items) == [t |-> "list", items |-> items]

\* csv.DictReader.__next__: dict(zip(fieldnames, row)); the cells beyond the
\* header go under the key None as a list; the headers beyond the cells get
\* None.  A header that occurs twice keeps the value written last.
DictRow(names, cells) ==
    LET lf == Len(names)
        lr == Len(cells)
        keys == {Str(names[i]) : i \in 1..lf} \cup (IF lf < lr THEN {NoneV} ELSE {})
    IN  [k \in keys |->
            IF k = NoneV THEN List(SubSeq(cells, lf + 1, lr))
            ELSE IF \E i \in (lr + 1)..lf : names[i] = k.s THEN NoneV
            ELSE Str(cells[CHOOSE i \in 1..lf :
                              /\ names[i] = k.s
                              /\ \A j \in 1..lf : names[j] = k.s => j <= i])]

\* row.get(key, default)
Get(d, key, default) == IF key \in DOMAIN d THEN d[key] ELSE default

RECURSIVE JoinReprs(_)
JoinReprs(items) ==
    IF items = <<>> THEN <<>>
    ELSE <<"'">> \o Head(items) \o <<"'">>
         \o (IF Len(items) > 1 THEN <<",", " ">> ELSE <<>>) \o JoinReprs(Tail(items))

\* str(v) for a str or a list of strs (none of which holds a quote)
StrOf(v) == IF v.t = "list" THEN <<"[">> \o JoinReprs(v.items) \o <<"]">> ELSE v.s

\* v or ""
OrEmpty(v) == IF v = NoneV \/ v = Str(<<>>) \/ v = List(<<>>) THEN Str(<<>>) ELSE v

\* re.sub(r"[^a-z]", "", s)
LettersOnly(s) == SelectSeq(s, IsLower)

SUCCESS_STATUSES ==
    {<<"s", "u", "c", "c", "e", "e", "d", "e", "d">>,
     <<"p", "a", "i", "d">>,
     <<"c", "o", "m", "p", "l", "e", "t", "e", "d">>,
     <<"p", "o", "s", "t", "e", "d">>,
     <<"c", "a", "p", "t", "u", "r", "e", "d">>,
     <<"s", "u", "c", "c", "e", "s", "s">>,
     <<"s", "e", "t", "t", "l", "e", "d">>}

\* float(CURRENCY_RE.sub("", str(v))) if v not in (None, "") else 0.0:
\* [raised, v], v a decimal
CellAmount(v) ==
    IF v = NoneV \/ v = Str(<<>>) THEN [raised |-> FALSE, v |-> DecZero]
    ELSE LET r == float(CurrencySub(StrOf(v)))
         IN  IF r.raised THEN [raised |-> TRUE, v |-> DecZero]
             ELSE [raised |-> FALSE, v |-> DecOfNum(r.v)]

\* status_canon of the row
StatusCanon(r, c_status) ==
    LettersOnly(Lower(Strip(StrOf(OrEmpty(Get(r, c_status, Str(<<>>)))))))

\* A faulty variant: a row dated on the filter date is dropped too.
FilteredOutInclusive(r, c_rev_date, eff) ==
    LET dt == IF c_rev_date # NoneV
              THEN parse_date_any(Get(r, c_rev_date, Str(<<>>)))
              ELSE NoneV
    IN  eff # NoneV /\ dt # NoneV /\ ~DateLess(eff, dt)

\* The date filter of the loop: `if eff_date and dt and dt < eff_date`
FilteredOut(r, c_rev_date, eff) ==
    LET dt == IF c_rev_date # NoneV
              THEN parse_date_any(Get(r, c_rev_date, Str(<<>>)))
              ELSE NoneV
    IN  eff # NoneV /\ dt # NoneV /\ DateLess(dt, eff)

\* One pass of the body of `for row in reader` on the row r, from the totals
\* rev and coll: the totals it leaves.  `continue` and the except clause leave
\* the totals as they are at that point: the revenue is added before the
\* collected cell is parsed, so an exception there leaves it in the total.
LoopBody(r, c, eff, rev, coll) ==
    IF FilteredOut(r, c.rev_date, eff)
    THEN [rev |-> rev, coll |-> coll]
    ELSE LET rev_float == CellAmount(Get(r, c.revenue, Str(<<>>)))
         IN  IF rev_float.raised
             THEN [rev |-> rev, coll |-> coll]
             ELSE LET rev2 == DecAdd(rev, rev_float.v)
                      coll_val == IF c.collected # NoneV
                                  THEN Get(r, c.collected, Str(<<>>))
                                  ELSE Str(<<>>)
                      status_canon == StatusCanon(r, c.status)
                      coll_float == CellAmount(coll_val)
                  IN  IF coll_float.raised
                      THEN [rev |-> rev2, coll |-> coll]
                      ELSE IF \/ status_canon \in SUCCESS_STATUSES
                              \/ (c.status = NoneV /\ DecPositive(coll_float.v))
                      THEN [rev |-> rev2, coll |-> DecAdd(coll, coll_float.v)]
                      ELSE [rev |-> rev2, coll |-> coll]

\* A faulty variant: the shortfall without max(0.0, ...).
DerivedMetricsSigned(rr, rev, coll) ==
    IF rr = <<>> \/ FirstNumber(rr) = <<>>
    THEN [rr_amount_due |-> NoneV, shortfall |-> NoneV]
    ELSE LET rate == DecDiv100(DecOfNum(float(FirstNumber(rr)).v))
             due == DecMul(rev, rate)
         IN  [rr_amount_due |-> due, shortfall |-> DecSub(due, coll)]

\* Lines 486-495: rr_amount_due and shortfall, None unless rr_norm holds a number
\* (re.search(...).group raises on a rate without one, and the except keeps
\* both None).  No rate of the model is 0, so that no product is -0.0.
DerivedMetrics(rr, rev, coll) ==
    IF rr = <<>> \/ FirstNumber(rr) = <<>>
    THEN [rr_amount_due |-> NoneV, shortfall |-> NoneV]
    ELSE LET rate == DecDiv100(DecOfNum(float(FirstNumber(rr)).v))
             due == DecMul(rev, rate)
         IN  [rr_amount_due |-> due, shortfall |-> DecMax0(DecSub(due, coll))]

----
\* statement_extract: the request

\* col_rev_date, col_revenue, col_collected, col_status of a header row
FindColumns(names) ==
    LET mapping == HeaderMapping(names)
    IN  [rev_date |-> find_col(mapping, "revenue_date"),
         revenue |-> find_col(mapping, "revenue"),
         collected |-> find_col(mapping, "collected"),
         status |-> find_col(mapping, "status")]

\* A faulty variant: only the revenue column is required.
RequiredColumnErrorRevenueOnly(c) ==
    IF c.revenue = NoneV THEN "CSV must include a 'Revenue' column"
    ELSE ""

\* Lines 448-451: the error of a header row without a required column, "" when
\* it has both
RequiredColumnError(c) ==
    IF c.revenue = NoneV THEN "CSV must include a 'Revenue' column"
    ELSE IF c.rev_date = NoneV THEN "CSV must include a 'Revenue Date' column"
    ELSE ""

ErrorResponse(code, error) == [code |-> code, ok |-> FALSE, error |-> error]

\* f"${x:,.2f}" of a sum or a product
NumOfDec(d) == Num(d.n < 0, IF d.n < 0 THEN 0 - d.n ELSE d.n, d.e)
Dollars(d, up) == <<"$">> \o FmtComma2f(NumOfDec(d), up)

\* The rounding choices of f"${x:,.2f}", x a number or None
DollarsTieChoices(d) == IF d = NoneV THEN {FALSE} ELSE TieChoices(NumOfDec(d))

\* The response of line 497: "inputs_detected" and "metrics" ("fill" repeats
\* "metrics" with "" for None).  ups: the rounding of each figure.
OkResponse(rows_processed, applied, columns, rev, coll, rr, derived, ups) ==
    [code |-> 200, ok |-> TRUE,
     revenue_rows_processed |-> rows_processed,
     effective_date_applied |-> applied,
     columns |-> columns,
     total_revenue |-> Str(Dollars(rev, ups.rev)),
     successful_payments |-> Str(Dollars(coll, ups.coll)),
     rr_percent |-> IF rr = <<>> THEN NoneV ELSE Str(rr),
     rr_amount |-> IF derived.rr_amount_due = NoneV THEN NoneV
                   ELSE Str(Dollars(derived.rr_amount_due, ups.due)),
     shortfall |-> IF derived.shortfall = NoneV THEN NoneV
                   ELSE Str(Dollars(derived.shortfall, ups.short))]

NoCols == [rev_date |-> NoneV, revenue |-> NoneV, collected |-> NoneV, status |-> NoneV]

----
\* agreement_extract: the text of the upload
\*
\* A text is kept as its lines, text.split("\n"): "" is the one empty line.

Text(lines) == [t |-> "text", lines |-> lines]
EmptyText == << <<>> >>

\* `not text`
NoText(text) == text = NoneV \/ text = Text(EmptyText)

\* not text.strip()
IsBlank(lines) == \A i \in DOMAIN lines : LStrip(lines[i]) = <<>>

\* "\n".join(texts)
RECURSIVE Join(_)
Join(texts) ==
    IF texts = <<>> THEN EmptyText
    ELSE IF Len(texts) = 1 THEN texts[1]
    ELSE texts[1] \o Join(Tail(texts))

\* The upload: blocks of lines, the first brk of them on page 1 and the rest,
\* if any, on page 2.  As a DOCX its paragraphs are the lines.
RECURSIVE Flatten(_)
Flatten(blocks) == IF blocks = <<>> THEN <<>> ELSE Head(blocks) \o Flatten(Tail(blocks))

LinesOf(blocks) == IF blocks = <<>> THEN EmptyText ELSE Flatten(blocks)

Pages(stream) ==
    IF stream.brk = Len(stream.blocks) THEN <<LinesOf(stream.blocks)>>
    ELSE <<LinesOf(SubSeq(stream.blocks, 1, stream.brk)),
           LinesOf(SubSeq(stream.blocks, stream.brk + 1, Len(stream.blocks)))>>

\* What a library does with the stream.  python-docx: "ok" or "raise".
\* pypdf: it raises after n pages, or reads them all; a page it does not see
\* the text of gives None or "".  pdfplumber: it raises, or reads every page.
DocxOutcomes == {"ok", "raise"}
PyPdfOutcomes(stream) ==
    LET np == Len(Pages(stream))
    IN  {[raised |-> FALSE, n |-> np, sees |-> b] : b \in BOOLEAN}
        \cup {[raised |-> TRUE, n |-> k, sees |-> TRUE] : k \in 0..(np - 1)}
PlumberOutcomes == {[raised |-> FALSE, sees |-> TRUE], [raised |-> FALSE, sees |-> FALSE],
                    [raised |-> TRUE, sees |-> FALSE]}

\* p.extract_text() or "" for the first n pages
ExtractedPages(stream, n, sees) ==
    [i \in 1..n |-> IF sees THEN Pages(stream)[i] ELSE EmptyText]

docx_to_text(stream, dx) ==
    IF dx = "raise" THEN NoneV ELSE Text(LinesOf(stream.blocks))

\* pdf_to_text: both attempts append to the one list `text`, so the pages the
\* first attempt read before it gave up head the text of the second.
pdf_to_text(stream, py, pl) ==
    LET first == ExtractedPages(stream, py.n, py.sees)
    IN  IF ~py.raised /\ ~IsBlank(Join(first)) THEN Text(Join(first))
        ELSE IF pl.raised THEN NoneV
        ELSE Text(Join(first \o ExtractedPages(stream, Len(Pages(stream)), pl.sees)))

\* Lines 309-314: the text agreement_extract goes on with
ReadText(is_docx, stream, dx, py, pl) ==
    LET text == IF is_docx THEN docx_to_text(stream, dx) ELSE NoneV
    IN  IF NoText(text) THEN pdf_to_text(stream, py, pl) ELSE text

\* What became of each strategy in that: "skipped" (not attempted), "failed"
\* (it raised), "blank" (the text it read is empty or white space), "text"
Attempts(is_docx, stream, dx, py, pl) ==
    LET text == IF is_docx THEN docx_to_text(stream, dx) ELSE NoneV
        first == ExtractedPages(stream, py.n, py.sees)
        pypdf == IF py.raised THEN "failed"
                 ELSE IF IsBlank(Join(first)) THEN "blank" ELSE "text"
    IN  [docx |-> IF ~is_docx THEN "skipped"
                  ELSE IF text = NoneV THEN "failed"
                  ELSE IF IsBlank(text.lines) THEN "blank" ELSE "text",
         pypdf |-> IF ~NoText(text) THEN "skipped" ELSE pypdf,
         pdfplumber |-> IF ~NoText(text) \/ pypdf = "text" THEN "skipped"
                        ELSE IF pl.raised THEN "failed"
                        ELSE IF pl.sees /\ ~IsBlank(Join(Pages(stream))) THEN "text"
                        ELSE "blank"]

----
\* agreement_extract: the patterns.  re.IGNORECASE throughout.  Each label
\* lies within one line in the documents of the model, and no document is
\* longer than a window ([\s\S]{0,160}? and the like), so that a window
\* reaches to the end of the text.

Hit(cap) == [ok |-> TRUE, cap |-> cap]
Miss == [ok |-> FALSE, cap |-> <<>>]

\* The least of a set of line numbers, 0 for none
First(S) == IF S = {} THEN 0 ELSE CHOOSE i \in S : \A j \in S : i <= j
Last(S) == IF S = {} THEN 0 ELSE CHOOSE i \in S : \A j \in S : i >= j

\* The word at the head of s: what follows it
AfterWord(s, word) ==
    IF Len(s) >= Len(word) /\ Lower(SubSeq(s, 1, Len(word))) = word
    THEN Hit(SubSeq(s, Len(word) + 1, Len(s)))
    ELSE Miss

\* The words at the head of s, \s* between them (gap 0) or \s+ (gap 1)
RECURSIVE AfterWords(_, _, _)
AfterWords(s, words, gap) ==
    LET m == AfterWord(s, Head(words))
    IN  IF ~m.ok \/ Len(words) = 1 THEN m
        ELSE IF gap = 1 /\ (m.cap = <<>> \/ ~IsSpace(Head(m.cap))) THEN Miss
        ELSE AfterWords(LStrip(m.cap), Tail(words), gap)

\* One of the labels (each a list of words, \s* between them) at the leftmost
\* place of the line where one is: what follows it
LabelIn(line, labels) ==
    LET at(p) == {l \in labels : AfterWords(SubSeq(line, p, Len(line)), l, 0).ok}
        p0 == First({p \in DOMAIN line : at(p) # {}})
    IN  IF p0 = 0 THEN Miss
        ELSE AfterWords(SubSeq(line, p0, Len(line)), CHOOSE l \in at(p0) : TRUE, 0)

\* (?:^|\n)\s*LABEL: the label at the start of the line, after white space
LabelAtStart(line, words) == AfterWords(LStrip(line), words, 0)

\* \s* at the end of a label, which runs over line ends: the first character
\* that is not white space, in what is left of line i or on a line below
ValueAt(lines, i, rest) ==
    IF LStrip(rest) # <<>> THEN [line |-> i, s |-> LStrip(rest)]
    ELSE LET j == First({k \in (i + 1)..Len(lines) : LStrip(lines[k]) # <<>>})
         IN  [line |-> j, s |-> IF j = 0 THEN <<>> ELSE LStrip(lines[j])]

Pipe_Agreement == <<<<"p", "i", "p", "e">>, <<"a", "g", "r", "e", "e", "m", "e", "n", "t">>>>
Summary == <<"s", "u", "m", "m", "a", "r", "y">>
Payment_Method == <<<<"p", "a", "y", "m", "e", "n", "t">>, <<"m", "e", "t", "h", "o", "d">>>>
pipe_com == <<"p", "i", "p", "e", ".", "c", "o", "m">>
Merchant == <<"m", "e", "r", "c", "h", "a", "n", "t">>
Business_Name == <<<<"b", "u", "s", "i", "n", "e", "s", "s">>, <<"n", "a", "m", "e">>>>
Effective_Date == <<<<"e", "f", "f", "e", "c", "t", "i", "v", "e">>, <<"d", "a", "t", "e">>>>
Agreement_Date == <<<<"a", "g", "r", "e", "e", "m", "e", "n", "t">>, <<"d", "a", "t", "e">>>>
Advance_Amount == {<<<<"a", "d", "v", "a", "n", "c", "e">>, <<"a", "m", "o", "u", "n", "t">>>>}
Fee == {<<<<"f", "e", "e">>>>}
Total_Payment_Amount == {<<<<"t", "o", "t", "a", "l">>, <<"p", "a", "y", "m", "e", "n", "t">>, <<"a", "m", "o", "u", "n", "t">>>>}
Total_Any_Amount ==
    {<<<<"t", "o", "t", "a", "l">>, w, <<"a", "m", "o", "u", "n", "t">>>> :
        w \in {<<"p", "a", "y", "m", "e", "n", "t">>, <<"a", "d", "v", "a", "n", "c", "e">>, <<"p", "u", "r", "c", "h", "a", "s", "e">>, <<"o", "b", "l", "i", "g", "a", "t", "i", "o", "n">>}}
Rate ==
    {<<<<"p", "a", "y", "m", "e", "n", "t">>, <<"r", "a", "t">>>>,
     <<<<"r", "e", "m", "i", "t", "t", "a", "n", "c", "e">>, <<"r", "a", "t">>>>,
     <<<<"w", "i", "t", "h", "h", "o", "l", "d", "i", "n", "g">>, <<"r", "a", "t">>>>,
     <<<<"r", "e", "v", "e", "n", "u", "e">>, <<"s", "h", "a", "r", "e">>, <<"r", "a", "t">>>>,
     <<<<"r", "r", "%">>, <<"r", "a", "t">>>>,
     <<<<"r", "r">>, <<"r", "a", "t">>>>}
Partner == <<"p", "a", "r", "t", "n", "e", "r">>

\* [:\-] (the en dash the patterns also take is in no document of the model)
IsSeparator(c) == c \in {":", "-"}

\* SUMMARY_BLOCK_RE.search(text): group(1) if it matches, else the text.
\* "Pipe Agreement" starts a line and ends it, "Summary" starts the next line
\* that is not white space, at its first column; the panel runs from there to the line before the
\* first that starts with "Payment Method" or with digits and "pipe.com", or
\* to the end of the text (`$` also matches before a last, empty line).
IsFooter(line) ==
    LET d == DigitRun(line)
        r == SubSeq(line, Len(d) + 1, Len(line))
    IN  d # <<>> /\ r # <<>> /\ IsSpace(Head(r)) /\ AfterWord(LStrip(r), pipe_com).ok

SummaryLine(lines, i) ==
    LET m == AfterWords(LStrip(lines[i]), Pipe_Agreement, 1)
        j == First({k \in (i + 1)..Len(lines) : LStrip(lines[k]) # <<>>})
    IN  IF m.ok /\ LStrip(m.cap) = <<>> /\ j # 0 /\ AfterWord(lines[j], Summary).ok
        THEN j ELSE 0

Panel(lines) ==
    LET i == First({k \in DOMAIN lines : SummaryLine(lines, k) # 0})
    IN  IF i = 0 THEN lines
        ELSE LET j == SummaryLine(lines, i)
                 n == Len(lines)
                 k == First({e \in (j + 1)..n :
                               \/ AfterWords(lines[e], Payment_Method, 0).ok
                               \/ IsFooter(lines[e])})
                 end == IF k # 0 THEN k - 1
                        ELSE IF n > j /\ lines[n] = <<>> THEN n - 1
                        ELSE n
             IN  <<AfterWord(lines[j], Summary).cap>> \o SubSeq(lines, j + 1, end)

\* _first_group: the str of a hit, stripped, or None
first_group(m) == IF m.ok THEN Str(Strip(m.cap)) ELSE NoneV

\* The first of the lines at which the pattern hits
FirstHit(lines, At(_, _)) ==
    LET i == First({k \in DOMAIN lines : At(lines, k).ok})
    IN  IF i = 0 THEN Miss ELSE At(lines, i)

\* Nothing but white space from line i on, `rest` being what is left of line
\* i: [^\n]+ then takes blanks that \s* (least 0) or \s+ (least 1) gives back
BlanksAt(lines, i, rest, least) ==
    Len(rest) > least \/ \E k \in (i + 1)..Len(lines) : lines[k] # <<>>

\* (?:^|\n)\s*Merchant\s+([^\n]+) at line i
MerchantAt(lines, i) ==
    LET m == AfterWord(LStrip(lines[i]), Merchant)
        v == ValueAt(lines, i, m.cap)
    IN  IF ~m.ok \/ (m.cap # <<>> /\ ~IsSpace(Head(m.cap))) THEN Miss
        ELSE IF v.line # 0 THEN Hit(v.s)
        ELSE IF BlanksAt(lines, i, m.cap, 1) THEN Hit(<<>>)
        ELSE Miss

\* (?:^|\n)\s*Business\s*Name\s*[:\-]\s*([^\n]+) at line i
BusinessNameAt(lines, i) ==
    LET m == LabelAtStart(lines[i], Business_Name)
        s == LStrip(m.cap)
        v == ValueAt(lines, i, Tail(s))
    IN  IF ~m.ok \/ s = <<>> \/ ~IsSeparator(Head(s)) THEN Miss
        ELSE IF v.line # 0 THEN Hit(v.s)
        ELSE IF BlanksAt(lines, i, Tail(s), 0) THEN Hit(<<>>)
        ELSE Miss

\* ([A-Za-z]{3,9}\s+\d{1,2}[,]?\s+\d{4}|\d{1,2}[/-]\d{1,2}[/-]\d{2,4}|\d{4}-\d{2}-\d{2})
\* at the head of s
RECURSIVE Concat(_)
Concat(toks) == IF toks = <<>> THEN <<>> ELSE Head(toks).s \o Concat(Tail(toks))

DateCapture(s) ==
    LET toks == Tokens(s)
        n == Len(toks)
        Is(i, k) == i <= n /\ toks[i].k = k
        Digits(i, lo, hi) == Is(i, "digit") /\ Len(toks[i].s) >= lo /\ Len(toks[i].s) <= hi
        Punct(i, chars) == Is(i, "punct") /\ toks[i].s[1] \in chars
        c == IF Punct(4, {","}) THEN 1 ELSE 0
        words == /\ Is(1, "alpha") /\ Len(toks[1].s) >= 3 /\ Len(toks[1].s) <= 9
                 /\ Is(2, "space") /\ Digits(3, 1, 2)
                 /\ Is(4 + c, "space") /\ Digits(5 + c, 4, Len(s))
        slashed == /\ Digits(1, 1, 2) /\ Punct(2, {"/", "-"})
                   /\ Digits(3, 1, 2) /\ Punct(4, {"/", "-"})
                   /\ Digits(5, 2, Len(s))
        iso == /\ Digits(1, 4, 4) /\ Punct(2, {"-"})
               /\ Digits(3, 2, 2) /\ Punct(4, {"-"})
               /\ Digits(5, 2, Len(s))
        upto(last, d) == Concat(SubSeq(toks, 1, last - 1))
                         \o SubSeq(toks[last].s, 1, IF Len(toks[last].s) < d
                                                    THEN Len(toks[last].s) ELSE d)
    IN  IF words THEN Hit(upto(5 + c, 4))
        ELSE IF slashed THEN Hit(upto(5, 4))
        ELSE IF iso THEN Hit(upto(5, 2))
        ELSE Miss

\* (?:^|\n)\s*Effective\s*Date\s*[:\-]?\s*(...) at line i
EffectiveDateAt(lines, i) ==
    LET m == LabelAtStart(lines[i], Effective_Date)
        v == ValueAt(lines, i, m.cap)
        w == IF v.line # 0 /\ IsSeparator(Head(v.s))
             THEN ValueAt(lines, v.line, Tail(v.s)) ELSE v
    IN  IF m.ok /\ w.line # 0 THEN DateCapture(w.s) ELSE Miss

\* (?:^|\n)\s*Agreement\s*Date\s*[:\-]?\s*([^\n]+) at line i
AgreementDateAt(lines, i) ==
    LET m == LabelAtStart(lines[i], Agreement_Date)
        v == ValueAt(lines, i, m.cap)
        w == IF v.line # 0 /\ IsSeparator(Head(v.s))
             THEN ValueAt(lines, v.line, Tail(v.s)) ELSE v
    IN  IF ~m.ok \/ v.line = 0 THEN Miss
        ELSE IF w.line # 0 THEN Hit(w.s)
        ELSE IF BlanksAt(lines, v.line, Tail(v.s), 0) THEN Hit(<<>>)
        ELSE Hit(v.s)

\* \$([\d,]+(?:\.\d{2})?) at the leftmost place of s where it matches
RECURSIVE DigitCommaRun(_)
DigitCommaRun(s) ==
    IF s # <<>> /\ (IsDigit(Head(s)) \/ Head(s) = ",")
    THEN <<Head(s)>> \o DigitCommaRun(Tail(s)) ELSE <<>>

AmountIn(s) ==
    LET p == First({q \in 1..(Len(s) - 1) :
                      s[q] = "$" /\ (IsDigit(s[q + 1]) \/ s[q + 1] = ",")})
        run == DigitCommaRun(SubSeq(s, p + 1, Len(s)))
        rest == SubSeq(s, p + 1 + Len(run), Len(s))
    IN  IF p = 0 THEN Miss
        ELSE IF Len(rest) >= 3 /\ rest[1] = "." /\ IsDigit(rest[2]) /\ IsDigit(rest[3])
        THEN Hit(run \o SubSeq(rest, 1, 3))
        ELSE Hit(run)

\* (\d{1,2}(?:\.\d+)?%?) at the leftmost digit of s
RateIn(s) ==
    LET p == First({q \in DOMAIN s : IsDigit(s[q])})
        run == DigitRun(SubSeq(s, p, Len(s)))
        int == SubSeq(run, 1, IF Len(run) < 2 THEN Len(run) ELSE 2)
        rest == SubSeq(s, p + Len(int), Len(s))
        frac == IF Len(rest) >= 2 /\ rest[1] = "." /\ IsDigit(rest[2])
                THEN <<".">> \o DigitRun(Tail(rest)) ELSE <<>>
        after == SubSeq(rest, Len(frac) + 1, Len(rest))
    IN  IF p = 0 THEN Miss
        ELSE Hit(int \o frac \o (IF after # <<>> /\ Head(after) = "%" THEN <<"%">> ELSE <<>>))

\* LABEL[\s\S]{0,w}?VALUE: the value at its first place after the leftmost
\* label, in what is left of the label's line or on a line below
ValueAfter(lines, i, rest, In(_)) ==
    IF In(rest).ok THEN In(rest)
    ELSE LET j == First({k \in (i + 1)..Len(lines) : In(lines[k]).ok})
         IN  IF j = 0 THEN Miss ELSE In(lines[j])

\* Advance\s*Amount, Total\s*...\s*Amount, ...\s*Rate?: a label anywhere
\* in a line (of Rate? the label is "Rat"; the e is no digit)
LabelledValue(lines, labels, In(_)) ==
    LET i == First({k \in DOMAIN lines : LabelIn(lines[k], labels).ok})
    IN  IF i = 0 THEN Miss ELSE ValueAfter(lines, i, LabelIn(lines[i], labels).cap, In)

\* (?:^|\n)\s*Fee\b: the label at the start of a line, no word character
\* after it
FeeLabel(line) ==
    LET m == LabelAtStart(line, CHOOSE l \in Fee : TRUE)
    IN  IF m.ok /\ (m.cap = <<>> \/ ~(IsAlpha(Head(m.cap)) \/ IsDigit(Head(m.cap))
                                      \/ Head(m.cap) = "_"))
        THEN m ELSE Miss

FeeValue(lines) ==
    LET i == First({k \in DOMAIN lines : FeeLabel(lines[k]).ok})
    IN  IF i = 0 THEN Miss ELSE ValueAfter(lines, i, FeeLabel(lines[i]).cap, AmountIn)

\* (?:^|\n)\s*Partner\s*[^\n]*\n([A-Za-z0-9 &'.\-]+) at line i.  The greedy \s*
\* runs over line ends to the first character that is not white space, [^\n]*
\* takes the rest of that line, and the group is read on the line below it;
\* failing that, \s* gives line ends back one by one.
RECURSIVE PartnerRun(_)
PartnerRun(s) ==
    IF s # <<>> /\ (IsAlpha(Head(s)) \/ IsDigit(Head(s)) \/ Head(s) \in {" ", "&", "'", ".", "-"})
    THEN <<Head(s)>> \o PartnerRun(Tail(s)) ELSE <<>>

PartnerAt(lines, i) ==
    LET m == AfterWord(LStrip(lines[i]), Partner)
        v == ValueAt(lines, i, m.cap)
        top == IF v.line = 0 \/ v.line = Len(lines) THEN Len(lines) ELSE v.line + 1
        j == Last({k \in (i + 1)..top : PartnerRun(lines[k]) # <<>>})
    IN  IF m.ok /\ j # 0 THEN Hit(PartnerRun(lines[j])) ELSE Miss

\* a or b
Or(a, b) == IF Falsy(a) THEN b ELSE a

\* _money_pretty(s).  (A captured amount has no digit beyond the cents, so
\* the rounding has no tie.)
money_pretty(s) ==
    IF Falsy(s) THEN NoneV
    ELSE LET pretty == parse_money(s, FALSE).display
         IN  IF pretty # <<>> THEN Str(pretty) ELSE s

\* The rate of the panel, of the text
RateOf(lines) == first_group(LabelledValue(lines, Rate, RateIn))

\* The rounding choices of the normalize_rr calls of agreement_extract
ExtractTieChoices(lines) ==
    PercentTieChoices(RateOf(Panel(lines))) \cup PercentTieChoices(RateOf(lines))

\* Lines 337 and 372-373: the captured date through norm_date, twice
EffectiveDate(eff) ==
    IF Falsy(eff) THEN NoneV
    ELSE LET once == Str(norm_date(eff, <<>>))
         IN  IF Falsy(once) THEN once ELSE Str(norm_date(once, <<>>))

\* Lines 319-373: the map `out` of a text
Extract(lines, up) ==
    LET panel == Panel(lines)
        business_name == Or(first_group(FirstHit(panel, MerchantAt)),
                            first_group(FirstHit(panel, BusinessNameAt)))
        eff == Or(first_group(FirstHit(panel, EffectiveDateAt)),
                  first_group(FirstHit(panel, AgreementDateAt)))
        adv == money_pretty(first_group(LabelledValue(panel, Advance_Amount, AmountIn)))
        fee == money_pretty(first_group(FeeValue(panel)))
        tot == money_pretty(first_group(LabelledValue(panel, Total_Payment_Amount, AmountIn)))
        rr == IF Falsy(RateOf(panel)) THEN NoneV
              ELSE Str(normalize_rr(RateOf(panel), up))
    IN  [business_name |->
             IF Falsy(business_name) THEN first_group(FirstHit(lines, MerchantAt))
             ELSE business_name,
         effective_date |-> EffectiveDate(eff),
         advance_amount |->
             IF Falsy(adv)
             THEN Or(money_pretty(first_group(LabelledValue(lines, Advance_Amount, AmountIn))), adv)
             ELSE adv,
         fee |->
             IF Falsy(fee) THEN Or(money_pretty(first_group(FeeValue(lines))), fee) ELSE fee,
         total_advance_plus_fee |->
             IF Falsy(tot)
             THEN Or(money_pretty(first_group(LabelledValue(lines, Total_Any_Amount, AmountIn))), tot)
             ELSE tot,
         rr_percent |->
             IF Falsy(rr)
             THEN (IF Falsy(RateOf(lines)) THEN NoneV
                   ELSE Str(normalize_rr(RateOf(lines), up)))
             ELSE rr,
         partner |-> first_group(FirstHit(panel, PartnerAt))]

----
\* Bounds and inputs

MaxMoneyLen == 4
MaxPercentLen == 3
MaxCols == 3
MaxLines == 3
MaxBlocks == 2

RECURSIVE StringsUpTo(_, _)
\* every sequence over the alphabet of at most n elements
StringsUpTo(alphabet, n) ==
    IF n = 0 THEN {<<>>}
    ELSE LET shorter == StringsUpTo(alphabet, n - 1)
         IN  shorter \cup {<<c>> \o s : c \in alphabet, s \in {x \in shorter : Len(x) = n - 1}}

MoneyChars == {"0", "1", "5", "9", ".", "-", ",", "$", "x"}
PercentChars == {"0", "1", "5", ".", "-", "%", "r"}

MoneyArgs == {NoneV} \cup {Str(s) : s \in StringsUpTo(MoneyChars, MaxMoneyLen)}
PercentArgs == {NoneV} \cup {Str(s) : s \in StringsUpTo(PercentChars, MaxPercentLen)}

\* Header rows of the statements: the team's headers, aliases in other cases
\* and spellings, a row without a date column, one without a revenue column,
\* and the empty file.
HeaderRows ==
    {<<<<"R", "e", "v", "e", "n", "u", "e", " ", "D", "a", "t", "e">>,
       <<"R", "e", "v", "e", "n", "u", "e">>,
       <<"C", "o", "l", "l", "e", "c", "t", "e", "d">>,
       <<"S", "t", "a", "t", "u", "s">>>>,
     <<<<"d", "a", "t", "e">>,
       <<"A", "m", "o", "u", "n", "t">>,
       <<"T", "o", " ", "P", "i", "p", "e">>>>,
     <<<<"P", "a", "y", "m", "e", "n", "t", " ", "D", "a", "t", "e">>,
       <<"G", "r", "o", "s", "s", " ", "R", "e", "v", "e", "n", "u", "e">>,
       <<"R", "e", "s", "u", "l", "t">>>>,
     <<<<"R", "e", "v", "e", "n", "u", "e">>,
       <<"C", "o", "l", "l", "e", "c", "t", "e", "d">>>>,
     <<<<"R", "e", "v", "e", "n", "u", "e", " ", "D", "a", "t", "e">>,
       <<"C", "o", "l", "l", "e", "c", "t", "e", "d">>>>,
     <<>>}

\* "", "2024-01-15", "soon"
EffectiveDateInputs ==
    {<<>>,
     <<"2", "0", "2", "4", "-", "0", "1", "-", "1", "5">>,
     <<"s", "o", "o", "n">>}

\* "", "14", "150", "tbd"
RateInputs ==
    {<<>>,
     <<"1", "4">>,
     <<"1", "5", "0">>,
     <<"t", "b", "d">>}

\* "2024-01-10", "1/15/2024", "n/a"
DateCells ==
    {<<"2", "0", "2", "4", "-", "0", "1", "-", "1", "0">>,
     <<"1", "/", "1", "5", "/", "2", "0", "2", "4">>,
     <<"n", "/", "a">>}

\* "$1,000", "-5", "abc", ""
AmountCells ==
    {<<"$", "1", ",", "0", "0", "0">>,
     <<"-", "5">>,
     <<"a", "b", "c">>,
     <<>>}

\* "PAID.", "failed"
StatusCells ==
    {<<"P", "A", "I", "D", ".">>,
     <<"f", "a", "i", "l", "e", "d">>}

OtherCells == {<<"x">>}

\* what a row longer than the header ends with: "paid"
OverflowCells == {<<"p", "a", "i", "d">>}

\* The cells a column may hold, by what its header says it is about
CellChoices(name) ==
    LET c == canonize(name)
    IN  IF c \in Aliases_revenue_date THEN DateCells
        ELSE IF c \in Aliases_revenue \cup Aliases_collected THEN AmountCells
        ELSE IF c \in Aliases_status THEN StatusCells
        ELSE OtherCells

RECURSIVE FullRows(_)
FullRows(names) ==
    IF names = <<>> THEN {<<>>}
    ELSE {<<c>> \o r : c \in CellChoices(Head(names)), r \in FullRows(Tail(names))}

\* The rows a reader of this header may yield: one cell per column, the same
\* with one cell more, the same with the last cell missing.
RowChoices(names) ==
    LET full == FullRows(names)
    IN  full
        \cup {r \o <<x>> : r \in full, x \in OverflowCells}
        \cup {SubSeq(r, 1, Len(r) - 1) : r \in {x \in full : Len(x) > 1}}

\* Header names of the column mapping taken alone
HeaderNames ==
    {<<"R", "e", "v", "e", "n", "u", "e", " ", "D", "a", "t", "e">>,
     <<"r", "e", "v", "e", "n", "u", "e", "_", "d", "a", "t", "e">>,
     <<"R", "E", "V", "E", "N", "U", "E", "-", "D", "A", "T", "E">>,
     <<" ", "D", "a", "t", "e", " ">>,
     <<"R", "e", "v", "e", "n", "u", "e", " ", "D", "a", "t", "e", ":">>,
     <<"A", "m", "o", "u", "n", "t">>,
     <<"(", "R", "e", "v", "e", "n", "u", "e", ")">>,
     <<"G", "r", "o", "s", "s", " ", "-", " ", "R", "e", "v", "e", "n", "u", "e">>,
     <<"S", "t", "a", "t", "u", "s">>,
     <<"M", "e", "m", "o">>}

\* The blocks the uploads are made of
BlockPool ==
    {<<<<"P", "i", "p", "e", " ", "A", "g", "r", "e", "e", "m", "e", "n", "t">>, <<"S", "u", "m", "m", "a", "r", "y">>>>,
     <<<<"P", "a", "y", "m", "e", "n", "t", " ", "M", "e", "t", "h", "o", "d">>>>,
     <<<<"E", "f", "f", "e", "c", "t", "i", "v", "e", " ", "D", "a", "t", "e", ":", " ", "J", "a", "n", " ", "5", ",", " ", "2", "0", "2", "4">>>>,
     <<<<"E", "f", "f", "e", "c", "t", "i", "v", "e", " ", "D", "a", "t", "e", ":", " ", "1", "/", "5", "/", "2", "4">>>>,
     <<<<"A", "g", "r", "e", "e", "m", "e", "n", "t", " ", "D", "a", "t", "e", ":", " ", "J", "a", "n", "u", "a", "r", "y", " ", "5", "t", "h">>>>,
     <<<<"M", "e", "r", "c", "h", "a", "n", "t", " ", "A", "C", "M", "E">>>>,
     <<<<"F", "e", "e", " ", "$", "5", "0", "0", ".", "0", "0">>>>,
     <<<<"T", "o", "t", "a", "l", " ", "A", "d", "v", "a", "n", "c", "e", " ", "A", "m", "o", "u", "n", "t", " ", "$", "1", "0", ",", "0", "0", "0">>>>,
     <<<<"R", "e", "v", "e", "n", "u", "e", " ", "S", "h", "a", "r", "e", " ", "R", "a", "t", "e", " ", "1", "4", "%">>>>,
     <<<<"P", "a", "r", "t", "n", "e", "r">>, <<"S", "t", "r", "i", "p", "e">>>>,
     <<<<" ">>>>}

Uploads ==
    UNION {{[blocks |-> b, brk |-> k] : k \in 0..Len(b)} :
              b \in StringsUpTo(BlockPool, MaxBlocks)}

NoAttempts == [docx |-> "skipped", pypdf |-> "skipped", pdfplumber |-> "skipped"]

MoneyIdle == money_val = NoneV /\ money_ret = Pending
PercentIdle == rr_arg = NoneV /\ rr_ret = Pending
ColumnsIdle == hdr_names = <<>> /\ hdr_cols = Pending
StatementIdle ==
    /\ st_pc = "idle"
    /\ fieldnames = <<>>
    /\ effective_date_str = <<>>
    /\ rr_percent_in = <<>>
    /\ eff_date = NoneV
    /\ rr_norm = <<>>
    /\ cols = NoCols
    /\ total_revenue = DecZero
    /\ total_collected_success = DecZero
    /\ row = NoneV
    /\ line_num = 0
    /\ rows_iterated = 0
    /\ resp = Pending
AgreementIdle ==
    /\ ag_pc = "idle"
    /\ ag_tried = NoAttempts
    /\ ag_text = NoneV
    /\ ag_resp = Pending

----
\* parse_money as a specification: one call on each argument

InitMoney ==
    /\ money_val \in MoneyArgs
    /\ money_ret = Pending
    /\ PercentIdle /\ ColumnsIdle /\ StatementIdle /\ AgreementIdle

CallParseMoney ==
    /\ money_ret = Pending
    /\ \E up \in MoneyTieChoices(money_val) :
           money_ret' = parse_money(money_val, up)
    /\ UNCHANGED <<money_val, percentVars, columnVars, statementVars, agreementVars>>

NextMoney == CallParseMoney

SpecMoney == InitMoney /\ [][NextMoney]_vars

----
\* normalize_rr as a specification: one call on each argument

InitPercent ==
    /\ rr_arg \in PercentArgs
    /\ rr_ret = Pending
    /\ MoneyIdle /\ ColumnsIdle /\ StatementIdle /\ AgreementIdle

CallNormalizeRr ==
    /\ rr_ret = Pending
    /\ \E up \in PercentTieChoices(rr_arg) :
           rr_ret' = Str(normalize_rr(rr_arg, up))
    /\ UNCHANGED <<rr_arg, moneyVars, columnVars, statementVars, agreementVars>>

NextPercent == CallNormalizeRr

SpecPercent == InitPercent /\ [][NextPercent]_vars

----
\* The column mapping of statement_extract as a specification: lines 434-445
\* on every header row of at most MaxCols names

InitColumns ==
    /\ hdr_names \in StringsUpTo(HeaderNames, MaxCols)
    /\ hdr_cols = Pending
    /\ MoneyIdle /\ PercentIdle /\ StatementIdle /\ AgreementIdle

MapColumns ==
    /\ hdr_cols = Pending
    /\ hdr_cols' = FindColumns(hdr_names)
    /\ UNCHANGED <<hdr_names, moneyVars, percentVars, statementVars, agreementVars>>

NextColumns == MapColumns

SpecColumns == InitColumns /\ [][NextColumns]_vars

----
\* statement_extract as a specification: one request, the reader yielding
\* the rows one by one

InitStatement == StatementIdle /\ MoneyIdle /\ PercentIdle /\ ColumnsIdle /\ AgreementIdle

\* Lines 414-420: the request is turned away before the CSV is read
StatementRefused ==
    /\ st_pc = "idle"
    /\ \E reason \in {"key", "nofile", "notcsv"} :
           resp' = CASE reason = "key" -> ErrorResponse(401, "Unauthorized: Invalid API key.")
                     [] reason = "nofile" -> ErrorResponse(400, "Missing CSV file")
                     [] reason = "notcsv" -> ErrorResponse(400, "Upload a .csv statement")
    /\ st_pc' = "done"
    /\ UNCHANGED <<fieldnames, effective_date_str, rr_percent_in, eff_date, rr_norm, cols,
                   total_revenue, total_collected_success, row, line_num,
                   rows_iterated>>
    /\ UNCHANGED <<moneyVars, percentVars, columnVars, agreementVars>>

\* Lines 422-455: the form, the header row, the column mapping, the required
\* columns, the totals set to 0.0
StatementRequest ==
    /\ st_pc = "idle"
    /\ \E eds \in EffectiveDateInputs, rrin \in RateInputs, names \in HeaderRows :
         \E up \in PercentTieChoices(Str(Strip(rrin))) :
           LET found == FindColumns(names)
               error == IF names = <<>> THEN "CSV missing header row"
                        ELSE RequiredColumnError(found)
           IN  /\ effective_date_str' = Strip(eds)
               /\ rr_percent_in' = Strip(rrin)
               /\ eff_date' = IF Strip(eds) # <<>> THEN parse_date_any(Str(Strip(eds)))
                              ELSE NoneV
               /\ rr_norm' = IF Strip(rrin) # <<>> THEN normalize_rr(Str(Strip(rrin)), up)
                             ELSE <<>>
               /\ fieldnames' = names
               /\ line_num' = IF names = <<>> THEN 0 ELSE 1
               /\ cols' = IF names = <<>> THEN NoCols ELSE found
               /\ IF error # ""
                  THEN /\ resp' = ErrorResponse(400, error)
                       /\ st_pc' = "done"
                  ELSE /\ resp' = resp
                       /\ st_pc' = "rows"
    /\ UNCHANGED <<total_revenue, total_collected_success, row, rows_iterated>>
    /\ UNCHANGED <<moneyVars, percentVars, columnVars, agreementVars>>

\* Line 457: the reader yields the next row of the file. DictReader.__next__
\* reads on past the lines without cells (`while row == []`), and building the
\* row's dict reads the fieldnames property, which sets line_num to the
\* underlying reader's line number: the skipped lines are counted with the row.
StatementNextRow ==
    /\ st_pc = "rows"
    /\ \E blanks \in 0 .. MaxLines :
          /\ line_num + blanks < MaxLines
          /\ line_num' = line_num + blanks + 1
    /\ \E cells \in RowChoices(fieldnames) : row' = DictRow(fieldnames, cells)
    /\ st_pc' = "body"
    /\ UNCHANGED <<fieldnames, effective_date_str, rr_percent_in, eff_date, rr_norm,
                   cols, total_revenue, total_collected_success, rows_iterated, resp>>
    /\ UNCHANGED <<moneyVars, percentVars, columnVars, agreementVars>>

\* Lines 458-484: one pass of the loop body, on the row just read
StatementRow ==
    /\ st_pc = "body"
    /\ LET done == LoopBody(row, cols, eff_date, total_revenue, total_collected_success)
       IN  /\ total_revenue' = done.rev
           /\ total_collected_success' = done.coll
    /\ rows_iterated' = rows_iterated + 1
    /\ st_pc' = "passed"
    /\ UNCHANGED <<fieldnames, effective_date_str, rr_percent_in, eff_date, rr_norm,
                   cols, row, line_num, resp>>
    /\ UNCHANGED <<moneyVars, percentVars, columnVars, agreementVars>>

\* The end of a pass (the end of the body, `continue`, the except clause):
\* back to the head of the loop
StatementLoopBack ==
    /\ st_pc = "passed"
    /\ row' = NoneV
    /\ st_pc' = "rows"
    /\ UNCHANGED <<fieldnames, effective_date_str, rr_percent_in, eff_date, rr_norm,
                   cols, total_revenue, total_collected_success, line_num,
                   rows_iterated, resp>>
    /\ UNCHANGED <<moneyVars, percentVars, columnVars, agreementVars>>

\* Lines 457, 486-521: the reader is exhausted; the derived figures and the
\* response. The last call of DictReader.__next__ sets line_num after its first
\* read and raises StopIteration from the next one: of the lines without cells
\* that end a file, the first is counted and the others are not.
StatementRespond ==
    /\ st_pc = "rows"
    /\ \E trailing \in {0, 1} :
          /\ line_num + trailing <= MaxLines
          /\ line_num' = line_num + trailing
    /\ LET derived == DerivedMetrics(rr_norm, total_revenue, total_collected_success)
       IN  \E ups \in [rev : DollarsTieChoices(total_revenue),
                        coll : DollarsTieChoices(total_collected_success),
                        due : DollarsTieChoices(derived.rr_amount_due),
                        short : DollarsTieChoices(derived.shortfall)] :
               resp' = OkResponse(line_num' - 1,
                                  IF eff_date # NoneV
                                  THEN Str(norm_date(Str(effective_date_str), <<>>))
                                  ELSE NoneV,
                                  fieldnames, total_revenue, total_collected_success,
                                  rr_norm, derived, ups)
    /\ st_pc' = "done"
    /\ UNCHANGED <<fieldnames, effective_date_str, rr_percent_in, eff_date, rr_norm, cols,
                   total_revenue, total_collected_success, row, rows_iterated>>
    /\ UNCHANGED <<moneyVars, percentVars, columnVars, agreementVars>>

NextStatement ==
    \/ StatementRefused
    \/ StatementRequest
    \/ StatementNextRow
    \/ StatementRow
    \/ StatementLoopBack
    \/ StatementRespond

SpecStatement == InitStatement /\ [][NextStatement]_vars

----
\* agreement_extract as a specification: one request

InitAgreement == AgreementIdle /\ MoneyIdle /\ PercentIdle /\ ColumnsIdle /\ StatementIdle

\* Lines 297-303: the request is turned away before the upload is read
AgreementRefused ==
    /\ ag_pc = "idle"
    /\ \E reason \in {"key", "nofile", "noname"} :
           ag_resp' = CASE reason = "key" -> ErrorResponse(401, "Unauthorized: Invalid API key.")
                        [] reason = "nofile" -> ErrorResponse(400, "Missing file")
                        [] reason = "noname" -> ErrorResponse(400, "Empty filename")
    /\ ag_pc' = "done"
    /\ UNCHANGED <<ag_tried, ag_text>>
    /\ UNCHANGED <<moneyVars, percentVars, columnVars, statementVars>>

\* Lines 305-317: the text of the upload, or the 422
AgreementRead ==
    /\ ag_pc = "idle"
    /\ \E is_docx \in BOOLEAN, stream \in Uploads :
         \E dx \in DocxOutcomes, py \in PyPdfOutcomes(stream), pl \in PlumberOutcomes :
           LET text == ReadText(is_docx, stream, dx, py, pl)
           IN  /\ ag_tried' = Attempts(is_docx, stream, dx, py, pl)
               /\ ag_text' = text
               /\ IF NoText(text) \/ IsBlank(text.lines)
                  THEN /\ ag_resp' = ErrorResponse(422, "Unable to read text (scanned PDF?).")
                       /\ ag_pc' = "done"
                  ELSE /\ ag_resp' = ag_resp
                       /\ ag_pc' = "text"
    /\ UNCHANGED <<moneyVars, percentVars, columnVars, statementVars>>

\* Lines 319-376: the panel, the pulls, the fallbacks, the response
AgreementExtract ==
    /\ ag_pc = "text"
    /\ \E up \in ExtractTieChoices(ag_text.lines) :
           ag_resp' = [code |-> 200, ok |-> TRUE, extracted |-> Extract(ag_text.lines, up)]
    /\ ag_pc' = "done"
    /\ UNCHANGED <<ag_tried, ag_text>>
    /\ UNCHANGED <<moneyVars, percentVars, columnVars, statementVars>>

NextAgreement ==
    \/ AgreementRefused
    \/ AgreementRead
    \/ AgreementExtract

SpecAgreement == InitAgreement /\ [][NextAgreement]_vars

\* ---- properties ----

----
\* Properties of parse_money (SpecMoney)

\* What is left of s without the characters outside [0-9.-]
C10_Residue(s) == SelectSeq(s, LAMBDA c : c \in Range(DigitChars) \cup {".", "-"})

\* A residue is a number: an optional sign, digits with at most one point
\* among them, at least one digit
C10_IsNumber(r) ==
    LET signed == r # <<>> /\ r[1] = "-"
        from == IF signed THEN 2 ELSE 1
    IN  /\ \A i \in from..Len(r) : r[i] # "-"
        /\ \A i, j \in from..Len(r) : (r[i] = "." /\ r[j] = ".") => i = j
        /\ \E i \in from..Len(r) : IsDigit(r[i])

\* The cents a display "$[-]d,ddd.dd" spells, and whether it is well formed:
\* '$', an optional '-', digits with a ',' before every group of three and
\* nowhere else, no leading zero, '.', two digits
C10_Body(d) == SubSeq(d, IF Len(d) >= 2 /\ d[2] = "-" THEN 3 ELSE 2, Len(d))

C10_WellFormed(d) ==
    LET b == C10_Body(d)
        n == Len(b) - 3
    IN  /\ d # <<>> /\ d[1] = "$"
        /\ n >= 1
        /\ b[n + 1] = "." /\ IsDigit(b[n + 2]) /\ IsDigit(b[n + 3])
        /\ \A i \in 1..n : IF (n - i + 1) % 4 = 0 THEN b[i] = "," ELSE IsDigit(b[i])
        /\ b[1] # ","
        /\ (n > 1 => b[1] # "0")

C10_Cents(d) == DigitsToInt(SelectSeq(C10_Body(d), IsDigit))

\* The digits of a number residue as an integer, and how many follow the point
C10_Mantissa(r) == DigitsToInt(SelectSeq(r, IsDigit))
C10_Scale(r) ==
    IF \E i \in DOMAIN r : r[i] = "."
    THEN Len(r) - (CHOOSE i \in DOMAIN r : r[i] = ".")
    ELSE 0

\* C10: parse_money never raises; for None or "" it returns (None, ""); for a
\* str whose residue is not a number it returns (None, the str unchanged);
\* otherwise it returns the number of the residue and a display that is
\* well formed, carries the sign of the number and is the number rounded to
\* the cent.
C10_ParseMoneyTotal ==
    money_ret # Pending =>
        /\ ~money_ret.raised
        /\ IF money_val = NoneV \/ money_val = Str(<<>>)
           THEN money_ret.amount = NoneV /\ money_ret.display = <<>>
           ELSE LET r == C10_Residue(money_val.s)
                IN  IF ~C10_IsNumber(r)
                    THEN money_ret.amount = NoneV /\ money_ret.display = money_val.s
                    ELSE /\ money_ret.amount # NoneV
                         /\ money_ret.amount.neg = (r[1] = "-")
                         /\ money_ret.amount.mant * Pow10(C10_Scale(r))
                            = C10_Mantissa(r) * Pow10(money_ret.amount.exp)
                         /\ C10_WellFormed(money_ret.display)
                         /\ (money_ret.display[2] = "-") = (r[1] = "-")
                         /\ LET diff == C10_Cents(money_ret.display) * Pow10(C10_Scale(r))
                                        - C10_Mantissa(r) * 100
                            IN  2 * diff <= Pow10(C10_Scale(r))
                                /\ 2 * diff >= 0 - Pow10(C10_Scale(r))

\* A number of four digits comes back with its thousands separator
C10_Witness ==
    /\ money_ret # Pending
    /\ money_ret.amount # NoneV
    /\ \E i \in DOMAIN money_ret.display : money_ret.display[i] = ","
    /\ money_val.s # money_ret.display

----
\* Properties of normalize_rr (SpecPercent)

\* The place of the first digit of s, 0 when it has none
C9_FirstDigit(s) ==
    IF \E i \in DOMAIN s : IsDigit(s[i])
    THEN CHOOSE i \in DOMAIN s : IsDigit(s[i]) /\ \A j \in 1..(i - 1) : ~IsDigit(s[j])
    ELSE 0

\* The number of s is written with a minus sign, and it is not zero
C9_Negative(s) ==
    LET i == C9_FirstDigit(s)
    IN  /\ i > 1 /\ s[i - 1] = "-"
        /\ \E j \in DOMAIN FirstNumber(s) : FirstNumber(s)[j] \in Range(DigitChars) \ {"0"}

\* The number of s is above 100
C9_Above100(s) ==
    LET m == float(FirstNumber(s)).v
    IN  ~C9_Negative(s) /\ m.mant > 100 * Pow10(m.exp)

\* C9: for an input with a decimal number in it, normalize_rr clamps the
\* number to [0, 100] before formatting: a negative number such as "-5" gives
\* "0%", a number above 100 such as "150" gives "100%".
C9_ClampsToRange ==
    (rr_ret # Pending /\ rr_arg # NoneV /\ C9_FirstDigit(rr_arg.s) # 0) =>
        /\ (C9_Negative(rr_arg.s) => rr_ret.s = <<"0", "%">>)
        /\ (C9_Above100(rr_arg.s) => rr_ret.s = <<"1", "0", "0", "%">>)

----
\* Properties of the column mapping (SpecColumns)

\* The columns of hdr_cols and the role of each
C8_RoleOf ==
    [rev_date |-> "revenue_date", revenue |-> "revenue",
     collected |-> "collected", status |-> "status"]

\* A header in lower case, with every run of characters that are neither
\* letters nor digits turned into one underscore
C8_Collapsed(h) ==
    LET l == Lower(h)
        alnum(i) == IsLower(l[i]) \/ IsDigit(l[i])
        kept == {i \in DOMAIN l : alnum(i) \/ i = 1 \/ alnum(i - 1)}
        place(n) == CHOOSE i \in kept : Cardinality({j \in kept : j <= i}) = n
    IN  [n \in 1..Cardinality(kept) |-> IF alnum(place(n)) THEN l[place(n)] ELSE "_"]

\* The same without its leading and trailing underscores, as the
\* normalization is described
C8_TrimUnderscores(s) ==
    LET inner == {i \in DOMAIN s : s[i] # "_"}
    IN  IF inner = {} THEN <<>>
        ELSE SubSeq(s, CHOOSE i \in inner : \A j \in inner : i <= j,
                       CHOOSE i \in inner : \A j \in inner : i >= j)

C8_Trimmed(h) == C8_TrimUnderscores(C8_Collapsed(h))

\* What the code does instead: white space is trimmed from the header first,
\* underscores are not trimmed
C8_Canonical(h) ==
    LET inner == {i \in DOMAIN h : ~IsSpace(h[i])}
    IN  IF inner = {} THEN <<>>
        ELSE C8_Collapsed(SubSeq(h, CHOOSE i \in inner : \A j \in inner : i <= j,
                                    CHOOSE i \in inner : \A j \in inner : i >= j))

\* The first header of hdr_names whose form under Normal is an alias of the
\* role, None when there is none
C8_FirstAlias(role, Normal(_)) ==
    LET hits == {i \in DOMAIN hdr_names : Normal(hdr_names[i]) \in COLUMN_ALIASES[role]}
    IN  IF hits = {} THEN NoneV
        ELSE Str(hdr_names[CHOOSE i \in hits : \A j \in hits : i <= j])

----
\* Properties of statement_extract (SpecStatement)

\* The cell of the current row under a column, "" for a column that is not
\* there and for a cell the row is too short for
RowCell(col) ==
    IF col = NoneV \/ col \notin DOMAIN row \/ row[col] = NoneV THEN <<>> ELSE row[col].s

\* An amount cell fails to parse in the way that raises: it is not empty and
\* what its digits, points and minus signs spell is not a number
AmountRaises(cell) == cell # <<>> /\ ~C10_IsNumber(C10_Residue(cell))

\* The amount of a cell that parses, 0 for the empty cell
AmountOf(cell) ==
    IF cell = <<>> \/ AmountRaises(cell) THEN DecZero
    ELSE LET r == C10_Residue(cell)
         IN  Dec((IF r[1] = "-" THEN 0 - 1 ELSE 1) * C10_Mantissa(r), C10_Scale(r))

\* A pass of the loop body
RowPass == st_pc = "body" /\ st_pc' = "passed"

TotalsUnchanged ==
    total_revenue' = total_revenue /\ total_collected_success' = total_collected_success

\* C4's condition: a filter is set, the revenue date of the row parses, and
\* it is strictly earlier than the filter
C4_Excluded ==
    LET dt == parse_date_any(Str(RowCell(cols.rev_date)))
    IN  /\ eff_date # NoneV
        /\ dt # NoneV
        /\ (dt.y < eff_date.y
            \/ (dt.y = eff_date.y /\ dt.m < eff_date.m)
            \/ (dt.y = eff_date.y /\ dt.m = eff_date.m /\ dt.d < eff_date.d))

\* C1: in the response of statement_extract, when a rate with a number in it
\* was supplied, the rr_amount reported is total_revenue times the reported
\* rate over 100 and the shortfall reported is max(0, rr_amount -
\* total_collected), each as dollars rounded to the cent, the shortfall never
\* negative; when no rate was supplied (or one without a number), both are
\* absent.
C1_ReportedRate ==
    LET s == resp.rr_percent.s
        digits == SelectSeq(s, IsDigit)
        dots == {i \in DOMAIN s : s[i] = "."}
    IN  Dec(DigitsToInt(digits),
            IF dots = {} THEN 0 ELSE Len(s) - 1 - (CHOOSE i \in dots : TRUE))

\* The display d is the amount a, in dollars rounded to the cent
C1_Reports(d, a) ==
    LET cents == (IF d[2] = "-" THEN 0 - 1 ELSE 1) * C10_Cents(d)
        diff == cents * Pow10(a.e) - a.n * 100
    IN  /\ C10_WellFormed(d)
        /\ 2 * diff <= Pow10(a.e) /\ 2 * diff >= 0 - Pow10(a.e)

C1_ShortfallNeverNegative ==
    (st_pc = "done" /\ resp.code = 200) =>
        /\ C1_Reports(resp.total_revenue.s, total_revenue)
        /\ C1_Reports(resp.successful_payments.s, total_collected_success)
        /\ IF \E i \in DOMAIN rr_percent_in : IsDigit(rr_percent_in[i])
           THEN LET due == DecDiv100(DecMul(total_revenue, C1_ReportedRate))
                    gap == DecSub(due, total_collected_success)
                IN  /\ resp.rr_amount # NoneV /\ resp.shortfall # NoneV
                    /\ C1_Reports(resp.rr_amount.s, due)
                    /\ C1_Reports(resp.shortfall.s, IF gap.n > 0 THEN gap ELSE DecZero)
                    /\ resp.shortfall.s[2] # "-"
           ELSE resp.rr_amount = NoneV /\ resp.shortfall = NoneV

\* More was collected than was due: the shortfall reported is $0.00
C1_Witness ==
    /\ st_pc = "done" /\ resp.code = 200
    /\ resp.rr_amount # NoneV
    /\ DecSub(DecDiv100(DecMul(total_revenue, C1_ReportedRate)), total_collected_success).n < 0
    /\ resp.shortfall = Str(<<"$", "0", ".", "0", "0">>)

\* C2: a row in which an amount cell (revenue or collected) fails to parse in
\* the way that raises is skipped entirely: the pass of the loop body on it
\* leaves both totals as they were.
C2_MalformedRowSkipped ==
    [][(RowPass /\ (AmountRaises(RowCell(cols.revenue))
                    \/ AmountRaises(RowCell(cols.collected))))
       => TotalsUnchanged]_vars

\* C3: on a row that is not skipped (not dropped by the date filter, no cell
\* that raises), the revenue is added to total_revenue, and the collected
\* amount is added to total_collected exactly when the status of the row, in
\* lower case and letters only, is a success status, or there is no status
\* column and the collected amount is positive.
C3_Credited ==
    \/ SelectSeq(Lower(RowCell(cols.status)), IsLower) \in SUCCESS_STATUSES
    \/ (cols.status = NoneV /\ AmountOf(RowCell(cols.collected)).n > 0)

C3_CollectedOnSuccess ==
    [][(/\ RowPass
        /\ ~C4_Excluded
        /\ ~AmountRaises(RowCell(cols.revenue))
        /\ ~AmountRaises(RowCell(cols.collected)))
       => /\ total_revenue' = DecAdd(total_revenue, AmountOf(RowCell(cols.revenue)))
          /\ total_collected_success' =
                 IF C3_Credited
                 THEN DecAdd(total_collected_success, AmountOf(RowCell(cols.collected)))
                 ELSE total_collected_success]_vars

\* C4: a row is left out of both totals when a filter is set, its revenue date
\* parses and is strictly earlier than the filter; in every other case (a row
\* dated on the filter date, a date that does not parse, no filter) the row is
\* counted: a revenue that parses is added to total_revenue.
C4_DateFilter ==
    [][RowPass =>
          /\ (C4_Excluded => TotalsUnchanged)
          /\ (~C4_Excluded /\ ~AmountRaises(RowCell(cols.revenue))) =>
                 total_revenue' = DecAdd(total_revenue, AmountOf(RowCell(cols.revenue)))]_vars

\* A row dated on the filter date has been counted
C4_Witness ==
    /\ st_pc = "passed"
    /\ rows_iterated = 1
    /\ eff_date # NoneV
    /\ parse_date_any(Str(RowCell(cols.rev_date))) = eff_date
    /\ AmountOf(RowCell(cols.revenue)).n > 0
    /\ total_revenue = AmountOf(RowCell(cols.revenue))

\* C5: when no header is an alias of the revenue date, or none is an alias of
\* the revenue, the request ends with an error before any row is read: no row
\* is iterated, no total is accumulated or reported.
C5_MissingRequiredColumn ==
    fieldnames # <<>> /\ (cols.rev_date = NoneV \/ cols.revenue = NoneV)

C5_NoPartialProcessing ==
    C5_MissingRequiredColumn =>
        /\ st_pc = "done"
        /\ resp.code = 400 /\ ~resp.ok
        /\ DOMAIN resp = {"code", "ok", "error"}
        /\ row = NoneV /\ rows_iterated = 0 /\ line_num = 1
        /\ total_revenue = DecZero /\ total_collected_success = DecZero

\* A statement with a revenue column and no revenue date column is refused
C5_Witness ==
    /\ st_pc = "done"
    /\ C5_MissingRequiredColumn
    /\ cols.revenue # NoneV
    /\ resp.code = 400

----
\* Properties of agreement_extract (SpecAgreement)

\* Every strategy that was attempted raised, or read nothing but white space
C6_NoStrategyReadText ==
    /\ ag_tried # NoAttempts
    /\ \A s \in DOMAIN ag_tried : ag_tried[s] \in {"skipped", "failed", "blank"}

\* C6: when every attempted text-extraction strategy failed or read empty or
\* white-space-only text, the request ends with the 422 and never with a map
\* of extracted fields; the fields are extracted only from a text that is not
\* empty once trimmed.
C6_UnreadableIs422 ==
    /\ C6_NoStrategyReadText =>
           /\ ag_pc = "done"
           /\ ag_resp.code = 422
           /\ "extracted" \notin DOMAIN ag_resp
    /\ ag_pc = "text" => ~IsBlank(ag_text.lines)

\* "Mon DD, YYYY"
C7_IsCanonicalDate(s) ==
    /\ Len(s) = 12
    /\ \E i \in DOMAIN MonthAbbrs : SubSeq(s, 1, 3) = MonthAbbrs[i]
    /\ s[4] = " " /\ IsDigit(s[5]) /\ IsDigit(s[6]) /\ s[7] = "," /\ s[8] = " "
    /\ \A i \in 9..12 : IsDigit(s[i])

\* C7: the effective_date of the map agreement_extract returns is absent or
\* in the form "Mon DD, YYYY", never a captured string that did not parse as
\* a date.
C7_EffectiveDateCanonical ==
    (ag_pc = "done" /\ ag_resp.code = 200) =>
        \/ ag_resp.extracted.effective_date = NoneV
        \/ C7_IsCanonicalDate(ag_resp.extracted.effective_date.s)

\* C11: the revenue_rows_processed of a successful response is the number of
\* passes of the row loop (rows skipped by the date filter or by a parse
\* failure included), for every file, one with lines without cells or with no
\* data row included.
C11_RowsProcessedIsRowsIterated ==
    (st_pc = "done" /\ resp.code = 200) =>
        resp.revenue_rows_processed = rows_iterated

\* The label/value search of each field, on the lines L (the panel, or the
\* whole text)
C12_Fields ==
    {"business_name", "effective_date", "advance_amount", "fee",
     "total_advance_plus_fee", "rr_percent", "partner"}

C12_Search(L, up) ==
    [business_name |-> Or(first_group(FirstHit(L, MerchantAt)),
                          first_group(FirstHit(L, BusinessNameAt))),
     effective_date |-> EffectiveDate(Or(first_group(FirstHit(L, EffectiveDateAt)),
                                         first_group(FirstHit(L, AgreementDateAt)))),
     advance_amount |-> money_pretty(first_group(LabelledValue(L, Advance_Amount, AmountIn))),
     fee |-> money_pretty(first_group(FeeValue(L))),
     total_advance_plus_fee |->
         money_pretty(first_group(LabelledValue(L, Total_Payment_Amount, AmountIn))),
     rr_percent |-> IF Falsy(RateOf(L)) THEN NoneV ELSE Str(normalize_rr(RateOf(L), up)),
     partner |-> first_group(FirstHit(L, PartnerAt))]

\* The field f of a response, given what the search found in the panel and
\* in the whole text: the panel's value when there is one, else the text's
C12_FallsBack(f, out, inPanel, inText) ==
    /\ ~Falsy(inPanel[f]) => out[f] = inPanel[f]
    /\ (Falsy(inPanel[f]) /\ ~Falsy(inText[f])) => out[f] = inText[f]

\* C12: every field the search of the summary panel leaves absent is searched
\* for again in the whole text, so a field whose label and value stand only
\* outside the panel is extracted all the same; a field found in the panel
\* keeps the panel's value.
C12_EveryFieldFallsBack ==
    (ag_pc = "done" /\ ag_resp.code = 200) =>
        \E up \in ExtractTieChoices(ag_text.lines) :
            \A f \in C12_Fields :
                C12_FallsBack(f, ag_resp.extracted,
                              C12_Search(Panel(ag_text.lines), up),
                              C12_Search(ag_text.lines, up))

====
